---- MODULE Spec2Model ----
(***************************************************************************)
(* A model of the whitenoise-core validator (validator-rust): the          *)
(* Partition, DpMean, DpMedian and Impute components and the public        *)
(* get_properties / expand_component entry points of lib.rs.               *)
(*                                                                         *)
(* Every public operation is one call: the action draws the arguments of   *)
(* the call, runs the code and records the returned value in `result`.     *)
(* get_properties is the exception: its ancestor-collection loop is        *)
(* stepped one iteration at a time, because whether it ends is in          *)
(* question.                                                               *)
(***************************************************************************)
EXTENDS Integers, Sequences, FiniteSets, TLC

VARIABLES
    pc,         \* "idle" | "collect" | "propagate" | "engine" | "done"
    op,         \* the operation that was called
    args,       \* the arguments of the call
    result,     \* the value the call returned
    graph,      \* analysis.computation_graph.value
    release,    \* the release map
    traversal,  \* get_properties: the stack of node ids still to visit;
                \* propagation: the work list
    ancestors,  \* get_properties: the set of node ids collected so far
    iterations, \* get_properties: the iterations of the collection loop run
                \* so far, counted modulo 2 (the count itself has no bound)
    property_map, \* propagation: the properties found, by node id
    max_id        \* propagation: the largest node id handed out so far

vars == <<pc, op, args, result, graph, release, traversal, ancestors, iterations,
          property_map, max_id>>

(***************************************************************************)
(* Rust values.                                                            *)
(***************************************************************************)

\* Option<T>: None is the empty sequence, Some(x) the sequence holding x.
None == <<>>
Some(x) == <<x>>
IsSome(o) == o # <<>>
Unwrap(o) == o[1]

\* Result<T>: Ok(v), Err(message), or a panic that unwinds out of the call.
Ok(v) == [status |-> "Ok", value |-> v]
Err(msg) == [status |-> "Err", message |-> msg]
Panic(msg) == [status |-> "Panic", message |-> msg]
IsOk(r) == r.status = "Ok"
IsErr(r) == r.status = "Err"

\* HashMap<K, V>: a function; insert overwrites an existing key.
EmptyMap == [k \in {} |-> TRUE]
MapInsert(m, k, v) == (k :> v) @@ m
MapFilterKeys(m, keep) == [x \in (DOMAIN m) \cap keep |-> m[x]]

\* The elements of a sequence, and its sum.
Range(s) == {s[i] : i \in DOMAIN s}
RECURSIVE SeqSum(_)
SeqSum(s) == IF s = <<>> THEN 0 ELSE Head(s) + SeqSum(Tail(s))

(***************************************************************************)
(* u32 node ids.  A u32 is kept as its two 16-bit halves, so that the      *)
(* whole range 0 .. 2^32-1 is represented exactly and `+ 1` wraps where    *)
(* the machine's does.                                                     *)
(***************************************************************************)
HalfMod == 65536

U32(n) == [hi |-> n \div HalfMod, lo |-> n % HalfMod]
U32_MAX == [hi |-> HalfMod - 1, lo |-> HalfMod - 1]

\* x + 1 in u32 two's-complement arithmetic.
U32WrappingSucc(x) ==
    IF x.lo + 1 < HalfMod
    THEN [hi |-> x.hi, lo |-> x.lo + 1]
    ELSE [hi |-> (x.hi + 1) % HalfMod, lo |-> 0]

\* `current_id += 1` on a u32: with overflow checks on (a debug build) the
\* addition panics at u32::MAX, with them off (a release build) it wraps.
U32AddOne(x, overflow_checks) ==
    IF x = U32_MAX /\ overflow_checks
    THEN Panic("attempt to add with overflow")
    ELSE Ok(U32WrappingSucc(x))

(***************************************************************************)
(* even_split_lengths (partition.rs).                                      *)
(***************************************************************************)

\* i64 `/` and `%`: truncation towards zero, the remainder takes the sign
\* of the dividend.  Only called with b # 0.
Abs(a) == IF a < 0 THEN -a ELSE a
RustDiv(a, b) ==
    IF (a < 0) = (b < 0) THEN Abs(a) \div Abs(b) ELSE -(Abs(a) \div Abs(b))
RustRem(a, b) == a - b * RustDiv(a, b)

\* the closure with `>` in place of `>=`: the remainder goes to one
\* partition too many
split_length_mutated(num_records, num_partitions, index) ==
    RustDiv(num_records, num_partitions)
        + (IF index > RustRem(num_records, num_partitions) THEN 0 ELSE 1)

\* the closure of the map: the length of partition `index`
split_length(num_records, num_partitions, index) ==
    RustDiv(num_records, num_partitions)
        + (IF index >= RustRem(num_records, num_partitions) THEN 0 ELSE 1)

\* (0..num_partitions).map(..).collect(): empty when num_partitions <= 0,
\* and then the closure (and its division) is never evaluated.
even_split_lengths(num_records, num_partitions) ==
    IF num_partitions <= 0
    THEN <<>>
    ELSE [i \in 1..num_partitions |->
            split_length(num_records, num_partitions, i - 1)]

(***************************************************************************)
(* Components.  proto::Component carries `arguments` (argument name ->     *)
(* source node id), `variant`, `omit` and the submission tag (the field    *)
(* is called `batch` in dp_mean.rs and `submission` in dp_median.rs).      *)
(***************************************************************************)
Component(arguments, variant, omit, submission) ==
    [arguments |-> arguments, variant |-> variant,
     omit |-> omit, submission |-> submission]

\* proto::ComponentExpansion
ComponentExpansion(computation_graph, properties, releases, order) ==
    [computation_graph |-> computation_graph, properties |-> properties,
     releases |-> releases, traversal |-> order, warnings |-> <<>>]

\* a privacy usage (epsilon, delta)
Usage(epsilon, delta) == [epsilon |-> epsilon, delta |-> delta]

\* the f64 literal 0.5, as a fraction
Half == [num |-> 1, den |-> 2]

Mean == [kind |-> "Mean"]
LaplaceMechanism(privacy_usage) ==
    [kind |-> "LaplaceMechanism", privacy_usage |-> privacy_usage]
DpMean(privacy_usage, implementation) ==
    [kind |-> "DpMean", privacy_usage |-> privacy_usage,
     implementation |-> implementation]
DpMedian(interpolation, privacy_usage, mechanism) ==
    [kind |-> "DpMedian", interpolation |-> interpolation,
     privacy_usage |-> privacy_usage, mechanism |-> mechanism]
DpQuantile(alpha, interpolation, privacy_usage, mechanism) ==
    [kind |-> "DpQuantile", alpha |-> alpha, interpolation |-> interpolation,
     privacy_usage |-> privacy_usage, mechanism |-> mechanism]
Partition == [kind |-> "Partition"]
Impute == [kind |-> "Impute"]
Quantile(alpha, interpolation) ==
    [kind |-> "Quantile", alpha |-> alpha, interpolation |-> interpolation]

(***************************************************************************)
(* <proto::DpMean as Expandable>::expand_component (dp_mean.rs).           *)
(***************************************************************************)

\* a node at id_mean that is the composite again instead of its Mean
DpMean_mean_node_mutated(component) ==
    Component(MapInsert(EmptyMap, "data", component.arguments["data"]),
              component.variant, TRUE, component.submission)

\* the Mean node inserted at id_mean
DpMean_mean_node(component) ==
    Component(MapInsert(EmptyMap, "data", component.arguments["data"]),
              Mean, TRUE, component.submission)

\* the noising node inserted at component_id
DpMean_noising_node(self, component, id_mean) ==
    Component(MapInsert(EmptyMap, "data", id_mean),
              LaplaceMechanism(self.privacy_usage), FALSE,
              component.submission)

DpMean_expand_component(self, component, component_id, maximum_id, overflow_checks) ==
    LET current_id == U32AddOne(maximum_id, overflow_checks) IN
    IF ~IsOk(current_id) THEN current_id
    ELSE IF "data" \notin DOMAIN component.arguments
    THEN Panic("unwrap on None")
    ELSE
        LET id_mean == current_id.value
            with_mean == MapInsert(EmptyMap, id_mean, DpMean_mean_node(component))
            computation_graph ==
                MapInsert(with_mean, component_id,
                          DpMean_noising_node(self, component, id_mean))
        IN  Ok(ComponentExpansion(computation_graph, EmptyMap, EmptyMap,
                                  <<id_mean>>))

(***************************************************************************)
(* <proto::DpMedian as Expandable>::expand_component (dp_median.rs).       *)
(***************************************************************************)
DpMedian_quantile_node(self, component) ==
    Component(component.arguments,
              DpQuantile(Half, self.interpolation, self.privacy_usage,
                         self.mechanism),
              TRUE, component.submission)

DpMedian_expand_component(self, component, component_id, maximum_id) ==
    Ok(ComponentExpansion(
        MapInsert(EmptyMap, component_id, DpMedian_quantile_node(self, component)),
        EmptyMap, EmptyMap, <<component_id>>))

(***************************************************************************)
(* Values and value properties (base.rs, which the components use through  *)
(* the accessors below).                                                   *)
(***************************************************************************)

\* base::GroupId
GroupId(partition_id, index) == [partition_id |-> partition_id, index |-> index]

\* `node_id as i64`: the zero-extension of a u32, which loses nothing.
U32AsI64(x) == [negative |-> FALSE, hi |-> x.hi, lo |-> x.lo]

\* ValueProperties::Array(ArrayProperties { .. })
ArrayProperties(num_records, num_columns, nullity, lower, upper, categories, dataset_id, group_id) ==
    [variant |-> "Array", num_records |-> num_records,
     num_columns |-> num_columns, nullity |-> nullity,
     lower |-> lower, upper |-> upper, categories |-> categories,
     dataset_id |-> dataset_id, group_id |-> group_id]

\* ValueProperties::Jagged
JaggedProperties == [variant |-> "Jagged"]

\* ValueProperties::Indexmap(IndexmapProperties { .. }) of variant Partition
IndexmapProperties(num_records, disjoint, children, dataset_id) ==
    [variant |-> "Indexmap", num_records |-> num_records,
     disjoint |-> disjoint, properties |-> children,
     dataset_id |-> dataset_id, indexmap_variant |-> "Partition"]

\* Jagged::Bool / Str / I64 / F64: one list of categories per column
Jagged(dtype, columns) == [dtype |-> dtype, columns |-> columns]

\* Value::Array of a data type, and a value that is no array
ArrayValue(dtype, data) == [variant |-> "Array", dtype |-> dtype, data |-> data]
JaggedValue == [variant |-> "Jagged"]

\* ValueProperties::array() and Value::array(): the projection fails when
\* the variant differs.
array(v) == IF v.variant = "Array" THEN Ok(v) ELSE Err("value must be an array")

\* ArrayProperties::categories(): fails when no categories are defined.
categories_of(array_properties) ==
    IF IsSome(array_properties.categories)
    THEN Ok(Unwrap(array_properties.categories))
    ELSE Err("categories is not defined")

\* Array::first_i64(): the first element of an i64 array.
first_i64(array_value) ==
    IF array_value.dtype = "I64" /\ Len(array_value.data) > 0
    THEN Ok(array_value.data[1])
    ELSE Err("value must be a non-empty integer array")

\* IndexMap<K, V>: the keys in insertion order and the value of each; an
\* insert of a key already present replaces its value in place.
EmptyIndexMap == [keys |-> <<>>, values |-> EmptyMap]
IndexMapInsert(m, k, v) ==
    [keys |-> IF k \in Range(m.keys) THEN m.keys ELSE Append(m.keys, k),
     values |-> MapInsert(m.values, k, v)]
RECURSIVE IndexMapCollect(_, _)
IndexMapCollect(m, pairs) ==
    IF pairs = <<>> THEN m
    ELSE IndexMapCollect(IndexMapInsert(m, Head(pairs)[1], Head(pairs)[2]), Tail(pairs))

(***************************************************************************)
(* <proto::Partition as Component>::propagate_property (partition.rs).     *)
(***************************************************************************)

\* a child that forgets the group ids its parent already carried
push_group_id_mutated(array_properties, node_id) ==
    [array_properties EXCEPT !.group_id = <<GroupId(node_id, None)>>]

\* properties.group_id.push(GroupId { partition_id: node_id, index: None })
push_group_id(array_properties, node_id) ==
    [array_properties EXCEPT !.group_id = Append(@, GroupId(node_id, None))]

\* IndexKey::Bool / Str / I64: the key of a partition, tagged by its type
IndexKey(dtype, value) == <<dtype, value>>

\* broadcast_partitions::<T>: one child per category of the single column
broadcast_partitions(dtype, categories, array_properties, node_id) ==
    IF Len(categories) # 1
    THEN Err("categories: must be defined for one column")
    ELSE
        LET child == push_group_id(array_properties, node_id)
            partitions == categories[1]
        IN  Ok(IndexMapCollect(EmptyIndexMap,
                [i \in 1..Len(partitions) |->
                    <<IndexKey(dtype, partitions[i]), child>>]))

\* a match that broadcasts categories of every type
partitionable_mutated(dtype) == TRUE

\* the arms of `match categories`: Bool, Str and I64 categories are
\* broadcast, any other type is refused
partitionable(dtype) == dtype \in {"Bool", "Str", "I64"}

\* the Some(by_property) arm
Partition_by_categories(by, data_property, node_id) ==
    LET by_array == array(by) IN
    IF ~IsOk(by_array) THEN Err("by: value must be an array")
    ELSE LET by_property == by_array.value IN
    IF ~IsSome(by_property.num_columns)
    THEN Err("number of columns must be known on by")
    ELSE IF Unwrap(by_property.num_columns) # 1
    THEN Err("Partition's by argument must contain a single column")
    ELSE LET categories == categories_of(by_property) IN
    IF ~IsOk(categories) THEN Err("by: categories is not defined")
    ELSE
        LET cleared == [data_property EXCEPT !.num_records = None]
            children ==
                IF partitionable(categories.value.dtype)
                THEN broadcast_partitions(categories.value.dtype,
                         categories.value.columns, cleared, node_id)
                ELSE Err("partitioning based on floats is not supported")
        IN  IF ~IsOk(children) THEN children
            ELSE Ok(IndexmapProperties(cleared.num_records, TRUE,
                        children.value, Some(U32AsI64(node_id))))

\* every partition given the length of the whole data
partition_lengths_mutated(data_property, num_partitions) ==
    IF num_partitions <= 0 THEN <<>>
    ELSE [i \in 1..num_partitions |-> data_property.num_records]

\* the lengths of the partitions: Some(length) when num_records is known,
\* None for each partition otherwise
partition_lengths(data_property, num_partitions) ==
    IF IsSome(data_property.num_records)
    THEN LET lengths == even_split_lengths(Unwrap(data_property.num_records), num_partitions)
         IN  [i \in DOMAIN lengths |-> Some(lengths[i])]
    ELSE IF num_partitions <= 0 THEN <<>>
    ELSE [i \in 1..num_partitions |-> None]

\* the None arm
Partition_by_count(public_arguments, data_property, node_id) ==
    IF "num_partitions" \notin DOMAIN public_arguments
    THEN Err("num_partitions or by must be passed to Partition")
    ELSE LET value == array(public_arguments["num_partitions"]) IN
    IF ~IsOk(value) THEN value
    ELSE LET num_partitions == first_i64(value.value) IN
    IF ~IsOk(num_partitions) THEN num_partitions
    ELSE
        LET lengths == partition_lengths(data_property, num_partitions.value)
            child(i) ==
                push_group_id([data_property EXCEPT !.num_records = lengths[i]], node_id)
        IN  Ok(IndexmapProperties(data_property.num_records, FALSE,
                   IndexMapCollect(EmptyIndexMap,
                       [i \in 1..Len(lengths) |->
                           <<IndexKey("I64", i - 1), child(i)>>]),
                   Some(U32AsI64(node_id))))

Partition_propagate_property(public_arguments, properties, node_id) ==
    IF "data" \notin DOMAIN properties THEN Err("data: missing")
    ELSE LET data_array == array(properties["data"]) IN
    IF ~IsOk(data_array) THEN Err("data: value must be an array")
    ELSE IF "by" \in DOMAIN properties
    THEN Partition_by_categories(properties["by"], data_array.value, node_id)
    ELSE Partition_by_count(public_arguments, data_array.value, node_id)

(***************************************************************************)
(* <proto::Impute as Component>::is_valid (impute.rs).                     *)
(***************************************************************************)

\* utilities::constraint::Constraint
Constraint(min, max, num_records, nullity) ==
    [min |-> min, max |-> max, num_records |-> num_records, nullity |-> nullity]

\* constraint_utils::get_min_f64 / get_num_records: an error
\* when the argument has no constraint or the attribute is None.
get_min_f64(constraints, name) ==
    IF name \in DOMAIN constraints /\ IsSome(constraints[name].min)
    THEN Ok(Unwrap(constraints[name].min)) ELSE Err("min is not defined")
get_num_records(constraints, name) ==
    IF name \in DOMAIN constraints /\ IsSome(constraints[name].num_records)
    THEN Ok(Unwrap(constraints[name].num_records)) ELSE Err("num_records is not defined")

Impute_is_valid(constraints) ==
    IF \/ IsErr(get_min_f64(constraints, "data"))
       \/ IsErr(get_min_f64(constraints, "data"))
       \/ IsErr(get_num_records(constraints, "data"))
    THEN FALSE
    ELSE TRUE

\* <proto::Impute as Expandable>::expand_graph: the maximum id as it
\* was, and no node
Impute_expand_graph(maximum_id) ==
    Ok([maximum_id |-> maximum_id, computation_graph |-> EmptyMap])

\* <proto::Impute as Component>::propagate_constraint: what is known of
\* `data`, without nulls
Impute_propagate_constraint(constraints) ==
    IF "data" \notin DOMAIN constraints THEN Panic("unwrap on None")
    ELSE Ok([constraints["data"] EXCEPT !.nullity = FALSE])

(***************************************************************************)
(* get_properties (lib.rs).                                                *)
(***************************************************************************)

\* base::ReleaseNode
ReleaseNode(value, public) == [value |-> value, public |-> public]

\* the ids a node's arguments name; none for an id that has no component
ArgumentIds(g, n) ==
    IF n \in DOMAIN g THEN Range(g[n].arguments) ELSE {}

\* the ids reachable from the set S along arguments edges, S included
RECURSIVE Reachable(_, _)
Reachable(g, S) ==
    LET next == S \cup UNION {ArgumentIds(g, n) : n \in S}
    IN  IF next = S THEN S ELSE Reachable(g, next)

\* the arguments edges of g contain a cycle
HasCycle(g) == \E n \in DOMAIN g : n \in Reachable(g, ArgumentIds(g, n))

\* utilities::propagate_properties, as far as get_properties depends on it:
\* the DAG check fails on a cycle, otherwise propagation runs on the graph
\* and release it was handed.
propagate_properties(g, r) ==
    IF HasCycle(g) THEN Err("CycleDetected")
    ELSE Ok([computation_graph |-> g, release |-> r])

\* the orders in which a HashMap's values() may be yielded
ValueOrders(m) ==
    {[i \in 1..Cardinality(DOMAIN m) |-> m[names[i]]] :
        names \in {p \in [1..Cardinality(DOMAIN m) -> DOMAIN m] :
                     \A i, j \in DOMAIN p : i # j => p[i] # p[j]}}

\* no filter: every entry of the map is kept
prune_mutated(m, kept) == m

\* the filter of the computation graph and of the release map
prune(m, kept) == MapFilterKeys(m, kept)

(***************************************************************************)
(* expand_component (lib.rs).                                              *)
(***************************************************************************)

\* utilities::inference::infer_property: the properties of a concrete value
infer_property(value) ==
    IF value.variant = "Array"
    THEN Ok(ArrayProperties(Some(Len(value.data)), Some(1), FALSE,
                            None, None, None, None, <<>>))
    ELSE Ok(JaggedProperties)

\* the request of expand_component
RequestExpandComponent(component, properties, arguments, component_id, maximum_id) ==
    [component |-> component, properties |-> properties,
     arguments |-> arguments, component_id |-> component_id,
     maximum_id |-> maximum_id]

\* the names of the arguments whose release node is public
PublicNames(arguments) == {k \in DOMAIN arguments : arguments[k].public}

\* `properties` after the loop over public_arguments: the declared
\* properties, overridden by those inferred from each public value
request_properties(request) ==
    [k \in (DOMAIN request.properties) \cup PublicNames(request.arguments) |->
        IF k \in PublicNames(request.arguments)
        THEN infer_property(request.arguments[k].value).value
        ELSE request.properties[k]]

\* `public_values`: the value of every argument of the request
request_public_values(request) ==
    [k \in DOMAIN request.arguments |-> request.arguments[k].value]

\* Expandable for proto::DpQuantile: a Quantile of the data at a new id
\* and the mechanism that releases it at component_id, both to be visited
DpQuantile_expand_component(self, component, component_id, maximum_id, overflow_checks) ==
    LET current_id == U32AddOne(maximum_id, overflow_checks) IN
    IF ~IsOk(current_id) THEN current_id
    ELSE IF "data" \notin DOMAIN component.arguments
    THEN Err("data: missing")
    ELSE
        LET id_quantile == current_id.value
            quantile ==
                Component(MapInsert(EmptyMap, "data", component.arguments["data"]),
                          Quantile(self.alpha, self.interpolation), TRUE,
                          component.submission)
            sanitizing ==
                Component(MapInsert(EmptyMap, "data", id_quantile),
                          LaplaceMechanism(self.privacy_usage), component.omit,
                          component.submission)
        IN  Ok(ComponentExpansion(
                MapInsert(MapInsert(EmptyMap, id_quantile, quantile),
                          component_id, sanitizing),
                EmptyMap, EmptyMap, <<id_quantile, component_id>>))

\* Expandable for proto::Component: the dispatch on the variant; a
\* component that is no composite expands to nothing.
Component_expand_component(component, properties, component_id, maximum_id, overflow_checks) ==
    CASE component.variant.kind = "DpMean" ->
            DpMean_expand_component(component.variant, component, component_id, maximum_id, overflow_checks)
      [] component.variant.kind = "DpMedian" ->
            DpMedian_expand_component(component.variant, component, component_id, maximum_id)
      [] component.variant.kind = "DpQuantile" ->
            DpQuantile_expand_component(component.variant, component, component_id, maximum_id, overflow_checks)
      [] component.variant.kind = "Impute" ->
            Ok(ComponentExpansion(Impute_expand_graph(maximum_id).value.computation_graph,
                                  EmptyMap, EmptyMap, <<>>))
      [] OTHER -> Ok(ComponentExpansion(EmptyMap, EmptyMap, EmptyMap, <<>>))

\* propagate_property of a source: the properties of the data it holds
Literal_propagate_property ==
    Ok(ArrayProperties(None, Some(1), TRUE, Some(<<0>>), Some(<<1>>), None, None, <<>>))

\* propagate_property of a primitive that transforms `data`: it needs the
\* properties of an array `data`
Primitive_propagate_property(properties) ==
    IF "data" \notin DOMAIN properties THEN Err("data: missing")
    ELSE LET data_array == array(properties["data"]) IN
    IF ~IsOk(data_array) THEN Err("data: value must be an array")
    ELSE Ok([data_array.value EXCEPT !.num_records = None])

\* <proto::DpMean as Component>::propagate_property
DpMean_propagate_property ==
    Err("DPMaximum is abstract, and has no property propagation")

\* Component for proto::Component: the dispatch on the variant
Component_propagate_property(component, public_arguments, properties, node_id) ==
    CASE component.variant.kind = "Partition" ->
            Partition_propagate_property(public_arguments, properties, node_id)
      [] component.variant.kind = "Impute" -> Impute_propagate_constraint(properties)
      [] component.variant.kind = "Literal" -> Literal_propagate_property
      [] component.variant.kind \in {"Mean", "Quantile", "LaplaceMechanism"} ->
            Primitive_propagate_property(properties)
      [] component.variant.kind = "DpMean" -> DpMean_propagate_property
      [] OTHER -> Err("component is abstract, and has no property propagation")

expand_component(request, overflow_checks) ==
    LET properties == request_properties(request) IN
    IF ~IsSome(request.component) THEN Err("component must be defined")
    ELSE
        LET component == Unwrap(request.component)
            expansion == Component_expand_component(component, properties,
                            request.component_id, request.maximum_id, overflow_checks)
            public_values == request_public_values(request)
        IN  IF expansion.status = "Panic" THEN expansion
            ELSE IF IsErr(expansion) THEN Err("at node_id")
            ELSE IF expansion.value.traversal # <<>> THEN expansion
            ELSE
                LET propagated == Component_propagate_property(component,
                                    public_values, properties, request.component_id)
                IN  IF propagated.status = "Panic" THEN propagated
                    ELSE IF IsErr(propagated) THEN Err("at node_id")
                    ELSE Ok([expansion.value EXCEPT !.properties =
                                MapInsert(@, request.component_id, propagated.value)])

(***************************************************************************)
(* generate_report (lib.rs) and the summarize methods it calls             *)
(* (dp_mean.rs, dp_median.rs).  The JSON string is kept as the sequence    *)
(* of its JSONRelease objects, in the order serde writes them.             *)
(***************************************************************************)

\* a component that takes no argument: a source of data
Literal == [kind |-> "Literal"]

\* `<` on u32
U32Lt(a, b) == a.hi < b.hi \/ (a.hi = b.hi /\ a.lo < b.lo)

\* the least id of a non-empty set of ids
U32Least(S) == CHOOSE n \in S : \A m \in S \ {n} : U32Lt(n, m)

\* utilities::get_traversal: the nodes in topological order, a node that
\* is ready first, and among the ready ones the lowest id first; fails
\* when a cycle leaves nodes that never become ready
RECURSIVE get_traversal_from(_, _)
get_traversal_from(g, visited) ==
    LET ready == {n \in (DOMAIN g) \ Range(visited) :
                    (ArgumentIds(g, n) \cap DOMAIN g) \subseteq Range(visited)}
    IN  IF Range(visited) = DOMAIN g THEN Ok(visited)
        ELSE IF ready = {} THEN Err("CycleDetected")
        ELSE get_traversal_from(g, Append(visited, U32Least(ready)))

get_traversal(g) == get_traversal_from(g, <<>>)

\* utilities::get_public_arguments: the released values of the arguments
\* whose release node is public
get_public_arguments(component, releases) ==
    Ok([name \in {k \in DOMAIN component.arguments :
                    /\ component.arguments[k] \in DOMAIN releases
                    /\ releases[component.arguments[k]].public} |->
            releases[component.arguments[name]].value])

\* utilities::get_input_properties: the properties of the arguments that
\* have any
get_input_properties(component, graph_properties) ==
    Ok([name \in {k \in DOMAIN component.arguments :
                    component.arguments[k] \in DOMAIN graph_properties} |->
            graph_properties[component.arguments[name]]])

\* Component::get_names: DpMean has none (dp_mean.rs); a source names its
\* columns, any other component hands on the names of its data
Component_get_names(component, public_arguments, arguments_vars, node_release) ==
    CASE component.variant.kind = "DpMean" -> Err("get_names not implemented")
      [] component.variant.kind = "Literal" -> Ok(<<"a", "b">>)
      [] OTHER ->
            IF "data" \in DOMAIN arguments_vars
            THEN Ok(arguments_vars["data"])
            ELSE Err("names are not known")

\* the body of the closure of the first pass, for one node: the names of
\* the node are recorded when they can be derived
record_names(g, releases, nodes_varnames, node_id) ==
    LET component == g[node_id]
        public_arguments == get_public_arguments(component, releases)
        arguments_vars ==
            [name \in {k \in DOMAIN component.arguments :
                        component.arguments[k] \in DOMAIN nodes_varnames} |->
                nodes_varnames[component.arguments[name]]]
        node_vars ==
            Component_get_names(component, public_arguments.value, arguments_vars,
                IF node_id \in DOMAIN releases THEN Some(releases[node_id].value) ELSE None)
    IN  IF ~IsOk(public_arguments) THEN public_arguments
        ELSE IF IsOk(node_vars)
        THEN Ok(MapInsert(nodes_varnames, node_id, node_vars.value))
        ELSE Ok(nodes_varnames)

\* the first pass: the closure runs over the traversal until it first
\* fails; what was recorded until then is kept and the failure is dropped
RECURSIVE collect_names(_, _, _, _)
collect_names(g, releases, order, nodes_varnames) ==
    IF order = <<>> THEN nodes_varnames
    ELSE LET recorded == record_names(g, releases, nodes_varnames, Head(order))
         IN  IF IsOk(recorded)
             THEN collect_names(g, releases, Tail(order), recorded.value)
             ELSE nodes_varnames

\* ArrayProperties::lower_f64 / upper_f64 / num_columns (get_min_f64,
\* get_max_f64 in dp_mean.rs): an error when the attribute is None
lower_f64(array_properties) ==
    IF IsSome(array_properties.lower)
    THEN Ok(Unwrap(array_properties.lower)) ELSE Err("lower is not defined")
upper_f64(array_properties) ==
    IF IsSome(array_properties.upper)
    THEN Ok(Unwrap(array_properties.upper)) ELSE Err("upper is not defined")
num_columns_of(array_properties) ==
    IF IsSome(array_properties.num_columns)
    THEN Ok(Unwrap(array_properties.num_columns)) ELSE Err("num_columns is not defined")
num_records_of(array_properties) ==
    IF IsSome(array_properties.num_records)
    THEN Ok(Unwrap(array_properties.num_records)) ELSE Err("num_records is not defined")

\* utilities::get_ith_column: column i (from 0) of a released array
get_ith_column(array_value, i) ==
    IF i < Len(array_value.data) THEN Ok(array_value.data[i + 1])
    ELSE Err("column index is out of range")

\* utilities::json::value_to_json: the JSON of a released array
value_to_json(value) ==
    IF value.variant = "Array" THEN Ok(value.data)
    ELSE Err("only arrays are serializable")

\* utilities::privacy::broadcast_privacy_usage: one usage is replicated,
\* k usages are passed through, any other number is refused
broadcast_privacy_usage(usages, k) ==
    IF Len(usages) = k THEN Ok(usages)
    ELSE IF Len(usages) = 1 THEN Ok([i \in 1..k |-> usages[1]])
    ELSE Err("privacy_usage: arity")

\* utilities::json::JSONRelease
JSONRelease(statistic, variables, release_info, privacy_loss, submission, node_id, algorithm_info) ==
    [description |-> "DP release information", statistic |-> statistic,
     variables |-> variables, release_info |-> release_info,
     privacy_loss |-> privacy_loss, accuracy |-> None,
     submission |-> submission, node_id |-> node_id, postprocess |-> FALSE,
     algorithm_info |-> algorithm_info]

\* <proto::DpMean as Report>::summarize: one entry per column of `data`;
\* the unwraps and the index into privacy_usage panic
DpMean_summarize(self, node_id, component, properties, node_release) ==
    IF "data" \notin DOMAIN properties THEN Err("data: missing")
    ELSE LET data_array == array(properties["data"]) IN
    IF ~IsOk(data_array) THEN Err("data: value must be an array")
    ELSE LET data_property == data_array.value IN
    IF \/ ~IsOk(lower_f64(data_property))
       \/ ~IsOk(upper_f64(data_property))
       \/ ~IsOk(num_records_of(data_property))
       \/ ~IsSome(data_property.num_columns)
    THEN Panic("unwrap on None")
    ELSE LET num_columns == Unwrap(data_property.num_columns) IN
    IF num_columns > 0 /\ ~IsOk(value_to_json(node_release))
    THEN Panic("unwrap on Err")
    ELSE IF num_columns > Len(self.privacy_usage)
    THEN Panic("index out of bounds")
    ELSE Ok(Some([column \in 1..num_columns |->
            JSONRelease("DPMean", <<>>,
                [mechanism |-> self.implementation,
                 releaseValue |-> value_to_json(node_release).value],
                self.privacy_usage[column], component.submission, node_id,
                [n |-> num_records_of(data_property).value,
                 lowerbound |-> lower_f64(data_property).value[column],
                 upperbound |-> upper_f64(data_property).value[column]])]))

\* the release_info of one column in DpMedian's summarize: the column of
\* a numeric array
DpMedian_release_info(node_release, column_number) ==
    LET released == array(node_release) IN
    IF ~IsOk(released) THEN released
    ELSE IF released.value.dtype \notin {"F64", "I64"}
    THEN Err("maximum must be numeric")
    ELSE get_ith_column(released.value, column_number)

\* <proto::DpMedian as Report>::summarize: one entry per column of `data`,
\* the first failing column ends the call
DpMedian_summarize(self, node_id, component, properties, node_release, variable_names) ==
    IF "data" \notin DOMAIN properties THEN Err("data: missing")
    ELSE LET data_array == array(properties["data"]) IN
    IF ~IsOk(data_array) THEN Err("data: value must be an array")
    ELSE LET data_property == data_array.value IN
    IF ~IsOk(lower_f64(data_property)) \/ ~IsOk(upper_f64(data_property))
    THEN Panic("unwrap on None")
    ELSE LET num_columns == num_columns_of(data_property) IN
    IF ~IsOk(num_columns) THEN num_columns
    ELSE LET privacy_usages == broadcast_privacy_usage(self.privacy_usage, num_columns.value) IN
    IF ~IsOk(privacy_usages) THEN privacy_usages
    ELSE IF \E column \in 0..(num_columns.value - 1) :
                ~IsOk(DpMedian_release_info(node_release, column))
    THEN DpMedian_release_info(node_release,
            CHOOSE column \in 0..(num_columns.value - 1) :
                /\ ~IsOk(DpMedian_release_info(node_release, column))
                /\ \A earlier \in 0..(column - 1) :
                        IsOk(DpMedian_release_info(node_release, earlier)))
    ELSE Ok(Some([column \in 1..num_columns.value |->
            JSONRelease("DPMedian",
                IF IsSome(variable_names) /\ column <= Len(Unwrap(variable_names))
                THEN Unwrap(variable_names)[column] ELSE "[Unknown]",
                DpMedian_release_info(node_release, column - 1).value,
                privacy_usages.value[column], component.submission, node_id,
                [mechanism |-> self.mechanism,
                 lowerbound |-> lower_f64(data_property).value[column],
                 upperbound |-> upper_f64(data_property).value[column]])]))

\* Report for proto::Component: the dispatch on the variant; a component
\* that is no DP release has nothing to report
Component_summarize(component, node_id, public_arguments, properties, node_release, variable_names) ==
    CASE component.variant.kind = "DpMean" ->
            DpMean_summarize(component.variant, node_id, component, properties, node_release)
      [] component.variant.kind = "DpMedian" ->
            DpMedian_summarize(component.variant, node_id, component, properties,
                               node_release, variable_names)
      [] OTHER -> Ok(None)

\* the body of the closure of the second pass, for one node
summarize_node(g, releases, graph_properties, nodes_varnames, node_id) ==
    LET component == g[node_id]
        public_arguments == get_public_arguments(component, releases)
        input_properties == get_input_properties(component, graph_properties)
        variable_names ==
            IF node_id \in DOMAIN nodes_varnames
            THEN Some(nodes_varnames[node_id]) ELSE None
    IN  IF ~IsOk(public_arguments) THEN public_arguments
        ELSE IF ~IsOk(input_properties) THEN input_properties
        ELSE IF node_id \notin DOMAIN releases THEN Ok(None)
        ELSE Component_summarize(component, node_id, public_arguments.value,
                input_properties.value, releases[node_id].value, variable_names)

\* the second pass: graph.iter() yields the nodes in `order`; the first
\* closure that fails ends the collect and, through `?`, the call
RECURSIVE release_schemas(_, _, _, _, _, _)
release_schemas(g, releases, graph_properties, nodes_varnames, order, collected) ==
    IF order = <<>> THEN Ok(collected)
    ELSE LET summary == summarize_node(g, releases, graph_properties,
                                       nodes_varnames, Head(order))
         IN  IF ~IsOk(summary) THEN summary
             ELSE release_schemas(g, releases, graph_properties, nodes_varnames,
                    Tail(order),
                    IF IsSome(summary.value)
                    THEN collected \o Unwrap(summary.value) ELSE collected)

\* generate_report, given the property map that propagation returned and
\* the order in which the HashMap of the graph yields its nodes
generate_report(g, releases, graph_properties, order) ==
    LET propagated == propagate_properties(g, releases) IN
    IF ~IsOk(propagated) THEN propagated
    ELSE LET ordered == get_traversal(g) IN
    IF ~IsOk(ordered) THEN ordered
    ELSE release_schemas(g, releases, graph_properties,
            collect_names(g, releases, ordered.value, EmptyMap), order, <<>>)

(***************************************************************************)
(* validate_analysis (lib.rs) and the expansion / propagation loop of      *)
(* utilities::propagate_properties that it runs in static mode.            *)
(***************************************************************************)

\* the greatest id of a non-empty set of ids
U32Greatest(S) == CHOOSE n \in S : \A m \in S \ {n} : U32Lt(m, n)

\* graph.extend(patch): the entries of the patch replace those of the
\* same key
MapExtend(m, patch) == patch @@ m

\* the state of the loop
LoopState(g, releases, properties, work, maximum_id) ==
    [computation_graph |-> g, release |-> releases, properties |-> properties,
     traversal |-> work, maximum_id |-> maximum_id]

\* one iteration of the loop on the node at the front of the work list:
\* an expansion that changes the graph is spliced in and its traversal is
\* put at the front; otherwise the node's property is propagated.  A
\* failure ends the loop.
propagate_node(state, overflow_checks) ==
    LET n == Head(state.traversal)
        c == state.computation_graph[n]
        args_props == get_input_properties(c, state.properties).value
        public_args == get_public_arguments(c, state.release).value
        expansion == Component_expand_component(c, args_props, n,
                        state.maximum_id, overflow_checks)
    IN  IF expansion.status = "Panic" THEN expansion
        ELSE IF IsErr(expansion) THEN Err("at node_id")
        ELSE IF expansion.value.computation_graph # EmptyMap
        THEN LET spliced == MapExtend(state.computation_graph,
                                      expansion.value.computation_graph)
             IN  Ok(LoopState(spliced,
                        MapExtend(state.release, expansion.value.releases),
                        MapExtend(state.properties, expansion.value.properties),
                        expansion.value.traversal \o Tail(state.traversal),
                        U32Greatest((DOMAIN spliced) \cup {state.maximum_id})))
        ELSE LET propagated == Component_propagate_property(c, public_args, args_props, n)
             IN  IF propagated.status = "Panic" THEN propagated
                 ELSE IF IsErr(propagated) THEN Err("at node_id")
                 ELSE Ok(LoopState(state.computation_graph, state.release,
                            MapInsert(state.properties, n, propagated.value),
                            Tail(state.traversal), state.maximum_id))

\* the components that expand into others
Composites == {"DpMean", "DpMedian", "DpQuantile"}

\* the number of composite components of a graph
CompositeCount(g) ==
    Cardinality({n \in DOMAIN g : g[n].variant.kind \in Composites})

(***************************************************************************)
(* Bounds and the arguments the calls are made with.                       *)
(***************************************************************************)
MaxRecords == 5
MaxPartitions == 3
NumNodes == 2
MaxNodeIds == 2
MaxTraversal == 4

\* node ids: small ones, those of the documented scenarios, and the
\* largest ones a u32 holds
NodeIdInputs == {U32(0), U32(4), U32(7), U32(10), U32(11), U32_MAX}

PrivacyUsageInputs == {<<Usage(1, 0)>>, <<Usage(2, 1)>>}

\* argument maps of a composite: with a data argument, with a second
\* argument beside it, and without one
CompositeArguments ==
    {MapInsert(EmptyMap, "data", a) : a \in {U32(3), U32(7)}}
        \cup {MapInsert(MapInsert(EmptyMap, "data", U32(3)), "lower", U32(2))}
        \cup {EmptyMap}

\* the properties of a parent array
DataProperties(num_records, group_id) ==
    ArrayProperties(num_records, Some(3), TRUE, Some(<<0, 0, 0>>),
                    Some(<<1, 1, 1>>), None, Some(U32AsI64(U32(1))), group_id)

NumRecordsInputs == {None, Some(100)} \cup {Some(n) : n \in 0..MaxRecords}
GroupIdInputs == {<<>>, <<GroupId(U32(2), None)>>}

\* the category lists of a `by` argument, per data type (F64 categories
\* are written as the integers they equal)
CategoryColumns(dtype) ==
    CASE dtype = "Bool" -> {<<<<FALSE, TRUE>>>>, <<<<TRUE>>>>, <<<<TRUE, TRUE>>>>,
                            <<<<FALSE>>, <<TRUE>>>>}
      [] dtype = "Str"  -> {<<<<"a", "b">>>>, <<<<>>>>}
      [] dtype = "I64"  -> {<<<<1, 2, 3>>>>, <<>>}
      [] dtype = "F64"  -> {<<<<0, 1>>>>}

\* the values a num_partitions argument may hold
NumPartitionsValues ==
    {ArrayValue("I64", <<k>>) : k \in (-1)..MaxPartitions}
        \cup {ArrayValue("I64", <<>>), ArrayValue("F64", <<2>>), JaggedValue}

\* computation graphs over NumNodes node ids: every node is absent or a
\* component with no argument, a data argument, or data and by arguments
GraphIds == {U32(i) : i \in 0..(NumNodes - 1)}
GraphArguments ==
    {EmptyMap} \cup {MapInsert(EmptyMap, "data", a) : a \in GraphIds}
        \cup {MapInsert(MapInsert(EmptyMap, "data", a), "by", b) : a, b \in GraphIds}
GraphComponents == {Component(a, Mean, FALSE, 0) : a \in GraphArguments}
Graphs == UNION {[S -> GraphComponents] : S \in SUBSET GraphIds}
\* a release of no node, and one with a value for every node id
Releases ==
    {[n \in S |-> ReleaseNode(ArrayValue("I64", <<1>>), TRUE)] : S \in {{}, GraphIds}}
NodeIdLists == UNION {[1..n -> GraphIds] : n \in 0..MaxNodeIds}

\* the graphs a report is made of: a source at node 0 and, at nodes 1 and
\* 2, nothing or a DpMean or DpMedian of that source with one or two
\* privacy usages (node 1 may also name itself as its data: a cycle)
ReportUsages == {<<Usage(1, 0)>>, <<Usage(1, 0), Usage(2, 1)>>}
ReportVariants ==
    {DpMean(u, "resize") : u \in ReportUsages}
        \cup {DpMedian("linear", u, "Laplace") : u \in ReportUsages}
ReportNodes(sources) ==
    {Component(MapInsert(EmptyMap, "data", a), v, FALSE, 0) :
        a \in sources, v \in ReportVariants}
ReportGraphs ==
    {MapInsert(rest, U32(0), Component(EmptyMap, Literal, TRUE, 0)) :
        rest \in
            {EmptyMap}
            \cup {MapInsert(EmptyMap, U32(1), c) : c \in ReportNodes({U32(0), U32(1)})}
            \cup {MapInsert(EmptyMap, U32(2), c) : c \in ReportNodes({U32(0)})}
            \cup {MapInsert(MapInsert(EmptyMap, U32(1), c), U32(2), d) :
                    c \in ReportNodes({U32(0), U32(1)}), d \in ReportNodes({U32(0)})}}

\* the properties propagation found for the source: an array of one or
\* of two bounded columns
ReportDataProperties ==
    {ArrayProperties(Some(MaxRecords), Some(1), FALSE, Some(<<0>>), Some(<<1>>),
                     None, Some(U32AsI64(U32(0))), <<>>),
     ArrayProperties(Some(MaxRecords), Some(2), FALSE, Some(<<0, 0>>), Some(<<1, 1>>),
                     None, Some(U32AsI64(U32(0))), <<>>)}

\* the property map of a graph: the source's properties, and those of a
\* one-column statistic for every other node
ReportProperties(g, data_properties) ==
    [n \in DOMAIN g |->
        IF n = U32(0) THEN data_properties
        ELSE ArrayProperties(Some(1), Some(1), FALSE, None, None, None, None, <<>>)]

\* what is released for a statistic: nothing, a numeric array of one or
\* of two columns, or an array of strings (every element is written as
\* its JSON text)
ReportValues ==
    {None, Some(ArrayValue("F64", <<"3.0">>)), Some(ArrayValue("F64", <<"3.0", "4.0">>)),
     Some(ArrayValue("Str", <<"x", "y">>))}
ReportRelease(g, first, second) ==
    [n \in {m \in DOMAIN g : \/ m = U32(1) /\ IsSome(first)
                             \/ m = U32(2) /\ IsSome(second)} |->
        ReleaseNode(Unwrap(IF n = U32(1) THEN first ELSE second), TRUE)]

\* the analyses that are validated: every node id holds nothing, a source,
\* or an Impute, DpMean or DpMedian of some node
AnalysisIds == {U32(0), U32(1), U32_MAX}
AnalysisComponents ==
    {Component(EmptyMap, Literal, FALSE, 0)}
        \cup {Component(MapInsert(EmptyMap, "data", a), v, FALSE, 0) :
                a \in AnalysisIds,
                v \in {Impute, DpMean(<<Usage(1, 0)>>, "resize"),
                       DpMedian("linear", <<Usage(1, 0)>>, "Laplace")}}
AnalysisGraphs == UNION {[S -> AnalysisComponents] : S \in SUBSET AnalysisIds}

\* the orders in which a HashMap may yield its keys
KeyOrders(m) ==
    {p \in [1..Cardinality(DOMAIN m) -> DOMAIN m] :
        \A i, j \in DOMAIN p : i # j => p[i] # p[j]}

(***************************************************************************)
(* f64, as far as the arithmetic of PrivacyUsage needs it: the values that *)
(* are not negative.  A finite value is the set of the exponents of its    *)
(* binary digits (5.0 = 2^2 + 2^0 is {2, 0}, 0.0 is {}), so that equal     *)
(* sets are equal numbers; a double holds at most F64_MANTISSA_DIGITS      *)
(* consecutive digits, none above F64_MAX_EXP or below F64_MIN_BIT.        *)
(***************************************************************************)
F64_MANTISSA_DIGITS == 53
F64_MAX_EXP == 1023
F64_MIN_BIT == -1074

F64Fin(bits) == [class |-> "Finite", bits |-> bits]
F64_INFINITY == [class |-> "Infinity", bits |-> {}]
F64_NAN == [class |-> "NaN", bits |-> {}]
F64_ZERO == F64Fin({})

\* the highest and the lowest exponent of a number that is not zero
MaxBit(S) == CHOOSE i \in S : \A j \in S : j <= i
MinBit(S) == CHOOSE i \in S : \A j \in S : i <= j

BitsShift(S, k) == {i + k : i \in S}

\* binary addition, digit by digit from exponent i up to top, with a carry
RECURSIVE BitsAddFrom(_, _, _, _, _)
BitsAddFrom(A, B, i, top, carry) ==
    IF i > top THEN (IF carry THEN {i} ELSE {})
    ELSE LET ones == (IF i \in A THEN 1 ELSE 0) + (IF i \in B THEN 1 ELSE 0)
                        + (IF carry THEN 1 ELSE 0)
         IN  (IF ones % 2 = 1 THEN {i} ELSE {})
                \cup BitsAddFrom(A, B, i + 1, top, ones >= 2)

\* the exact sum of two numbers: below the lowest digit of one of them
\* the digits of the other stand as they are
BitsAdd(A, B) ==
    IF A = {} THEN B
    ELSE IF B = {} THEN A
    ELSE LET low == IF MinBit(A) > MinBit(B) THEN MinBit(A) ELSE MinBit(B)
         IN  {i \in A \cup B : i < low}
                \cup BitsAddFrom(A, B, low, MaxBit(A \cup B), FALSE)

\* A < B: the highest digit in which they differ is a digit of B
BitsLess(A, B) ==
    /\ A # B
    /\ MaxBit((A \ B) \cup (B \ A)) \in B

\* the digits of a number in groups of LimbDigits, each group a number
\* below LimbBase: limb k holds the digits from low + LimbDigits * (k - 1)
LimbDigits == 14
LimbBase == 16384
NumLimbs == 4

Limb(S, low) ==
    SeqSum([j \in 1..LimbDigits |-> IF (low + j - 1) \in S THEN 2 ^ (j - 1) ELSE 0])

Limbs(S, low) == [k \in 1..NumLimbs |-> Limb(S, low + LimbDigits * (k - 1))]

LimbsToBits(limbs, low) ==
    UNION {{low + LimbDigits * (k - 1) + b :
                b \in {j \in 0..(LimbDigits - 1) : (limbs[k] \div (2 ^ j)) % 2 = 1}} :
            k \in DOMAIN limbs}

\* every column brought below LimbBase, the excess carried (or, when the
\* column is negative, borrowed) to the next
RECURSIVE LimbsCarry(_, _, _)
LimbsCarry(columns, k, carry) ==
    IF k > Len(columns) THEN <<>>
    ELSE LET total == columns[k] + carry
             digit == total % LimbBase
         IN  <<digit>> \o LimbsCarry(columns, k + 1, (total - digit) \div LimbBase)

\* the exact difference A - B of two integers below 2^(LimbDigits *
\* NumLimbs) with A >= B
BitsSub(A, B) ==
    LET columns == [k \in 1..NumLimbs |-> Limbs(A, 0)[k] - Limbs(B, 0)[k]]
    IN  LimbsToBits(LimbsCarry(columns, 1, 0), 0)

\* the exact product of two numbers of at most LimbDigits * NumLimbs
\* digits: the columns of the long multiplication of their limbs
BitsMul(A, B) ==
    IF A = {} \/ B = {} THEN {}
    ELSE
        LET x == Limbs(A, MinBit(A))
            y == Limbs(B, MinBit(B))
            columns == [k \in 1..(2 * NumLimbs) |->
                           SeqSum([i \in 1..NumLimbs |->
                               IF k + 1 - i \in 1..NumLimbs
                               THEN x[i] * y[k + 1 - i] ELSE 0])]
        IN  LimbsToBits(LimbsCarry(columns, 1, 0), MinBit(A) + MinBit(B))

\* long division, `count` digits of it: the digits of the quotient from
\* exponent t downwards, and the remainder the next digit starts from
RECURSIVE BitsDivFrom(_, _, _, _)
BitsDivFrom(remainder, D, t, count) ==
    IF count = 0 THEN [quotient |-> {}, remainder |-> remainder]
    ELSE LET fits == ~BitsLess(remainder, D)
             left == IF fits THEN BitsSub(remainder, D) ELSE remainder
             rest == BitsDivFrom(BitsShift(left, 1), D, t - 1, count - 1)
         IN  [quotient |-> (IF fits THEN {t} ELSE {}) \cup rest.quotient,
              remainder |-> rest.remainder]

\* N / D for two integers with the same highest digit: NumLimbs times
\* LimbDigits digits of the quotient, from exponent 0 downwards, and
\* whether a remainder is left
BitsDiv(N, D) ==
    LET first == BitsDivFrom(N, D, 0, LimbDigits)
        second == BitsDivFrom(first.remainder, D, 0 - LimbDigits, LimbDigits)
        third == BitsDivFrom(second.remainder, D, 0 - 2 * LimbDigits, LimbDigits)
        fourth == BitsDivFrom(third.remainder, D, 0 - 3 * LimbDigits, LimbDigits)
    IN  [quotient |-> first.quotient \cup second.quotient
                        \cup third.quotient \cup fourth.quotient,
         inexact |-> fourth.remainder # {}]

\* a digit far below every digit of a double: what is left of a quotient
\* whose division leaves a remainder
StickyBit == {-2000}

\* round to nearest, ties to even: the double nearest to the exact number
\* S, and infinity when that is beyond the largest double
F64Round(S) ==
    IF S = {} THEN F64_ZERO
    ELSE
        LET hi == MaxBit(S)
            lowest == IF hi - (F64_MANTISSA_DIGITS - 1) > F64_MIN_BIT
                      THEN hi - (F64_MANTISSA_DIGITS - 1) ELSE F64_MIN_BIT
            kept == {i \in S : i >= lowest}
            rest == S \ kept
            half == lowest - 1
            up == /\ half \in rest
                  /\ \/ rest # {half}
                     \/ lowest \in kept
            rounded == IF up THEN BitsAdd(kept, {lowest}) ELSE kept
        IN  IF rounded # {} /\ MaxBit(rounded) > F64_MAX_EXP
            THEN F64_INFINITY
            ELSE F64Fin(rounded)

\* x + y
F64Add(x, y) ==
    IF x.class = "NaN" \/ y.class = "NaN" THEN F64_NAN
    ELSE IF x.class = "Infinity" \/ y.class = "Infinity" THEN F64_INFINITY
    ELSE F64Round(BitsAdd(x.bits, y.bits))

\* x * y
F64Mul(x, y) ==
    IF x.class = "NaN" \/ y.class = "NaN" THEN F64_NAN
    ELSE IF x.class = "Infinity" \/ y.class = "Infinity"
    THEN (IF x = F64_ZERO \/ y = F64_ZERO THEN F64_NAN ELSE F64_INFINITY)
    ELSE F64Round(BitsMul(x.bits, y.bits))

\* the quotient of two finite numbers that are not zero: X and Y are
\* brought to integers with the same highest digit, and these are divided
\* to more digits than a double holds
F64Quotient(X, Y) ==
    LET top == F64_MANTISSA_DIGITS - 1
        N == BitsShift(X, top - MaxBit(X))
        D == BitsShift(Y, top - MaxBit(Y))
        division == BitsDiv(N, D)
        exact == BitsShift(division.quotient, MaxBit(X) - MaxBit(Y))
    IN  F64Round(exact \cup (IF division.inexact THEN StickyBit ELSE {}))

\* x / y
F64Div(x, y) ==
    IF x.class = "NaN" \/ y.class = "NaN" THEN F64_NAN
    ELSE IF x.class = "Infinity"
    THEN (IF y.class = "Infinity" THEN F64_NAN ELSE F64_INFINITY)
    ELSE IF y.class = "Infinity" THEN F64_ZERO
    ELSE IF y = F64_ZERO
    THEN (IF x = F64_ZERO THEN F64_NAN ELSE F64_INFINITY)
    ELSE IF x = F64_ZERO THEN F64_ZERO
    ELSE F64Quotient(x.bits, y.bits)

\* f64::is_finite
F64IsFinite(x) == x.class = "Finite"

\* a double written in hexadecimal, digits[1] . digits[2] ... times 2^exp
F64Hex(digits, exp) ==
    F64Fin(UNION {{exp - 4 * (k - 1) + b :
                        b \in {j \in 0..3 : (digits[k] \div (2 ^ j)) % 2 = 1}} :
                     k \in DOMAIN digits})

(***************************************************************************)
(* impl Add / Mul / Div for proto::PrivacyUsage (lib.rs).                  *)
(***************************************************************************)

\* proto::privacy_usage::Distance::Approximate(DistanceApproximate { .. })
DistanceApproximate(epsilon, delta) == [epsilon |-> epsilon, delta |-> delta]

\* proto::PrivacyUsage { distance }
PrivacyUsage(distance) == [distance |-> distance]

\* self.distance.ok_or_else(|| "distance must be defined")
distance_of(usage) ==
    IF IsSome(usage.distance) THEN Ok(Unwrap(usage.distance))
    ELSE Err("distance must be defined")

\* an addition that leaves delta as it was on the left
PrivacyUsage_add_mutated(self, rhs) ==
    LET left_distance == distance_of(self)
        right_distance == distance_of(rhs)
    IN  IF ~IsOk(left_distance) THEN left_distance
        ELSE IF ~IsOk(right_distance) THEN right_distance
        ELSE Ok(PrivacyUsage(Some(DistanceApproximate(
                    F64Add(left_distance.value.epsilon, right_distance.value.epsilon),
                    left_distance.value.delta))))

\* impl Add<proto::PrivacyUsage> for proto::PrivacyUsage
PrivacyUsage_add(self, rhs) ==
    LET left_distance == distance_of(self)
        right_distance == distance_of(rhs)
    IN  IF ~IsOk(left_distance) THEN left_distance
        ELSE IF ~IsOk(right_distance) THEN right_distance
        ELSE Ok(PrivacyUsage(Some(DistanceApproximate(
                    F64Add(left_distance.value.epsilon, right_distance.value.epsilon),
                    F64Add(left_distance.value.delta, right_distance.value.delta)))))

\* impl Mul<f64> for proto::PrivacyUsage
PrivacyUsage_mul(self, rhs) ==
    LET approximate == distance_of(self)
    IN  IF ~IsOk(approximate) THEN approximate
        ELSE Ok(PrivacyUsage(Some(DistanceApproximate(
                    F64Mul(approximate.value.epsilon, rhs),
                    F64Mul(approximate.value.delta, rhs)))))

\* impl Div<f64> for proto::PrivacyUsage
PrivacyUsage_div(self, rhs) ==
    LET approximate == distance_of(self)
    IN  IF ~IsOk(approximate) THEN approximate
        ELSE Ok(PrivacyUsage(Some(DistanceApproximate(
                    F64Div(approximate.value.epsilon, rhs),
                    F64Div(approximate.value.delta, rhs)))))

\* the doubles of the decimal literals 1e-6, 2e-6, 3e-6, 1.5e-6, 0.1, 0.2
\* and 0.3, the small integers, 2.5, 0.5, 2^-20 and f64::MAX
F64_1e_6 == F64Hex(<<1, 0, 12, 6, 15, 7, 10, 0, 11, 5, 14, 13, 8, 13>>, -20)
F64_2e_6 == F64Hex(<<1, 0, 12, 6, 15, 7, 10, 0, 11, 5, 14, 13, 8, 13>>, -19)
F64_3e_6 == F64Hex(<<1, 9, 2, 10, 7, 3, 7, 1, 1, 0, 14, 4, 5, 4>>, -19)
F64_1_5e_6 == F64Hex(<<1, 9, 2, 10, 7, 3, 7, 1, 1, 0, 14, 4, 5, 4>>, -20)
F64_0_1 == F64Hex(<<1, 9, 9, 9, 9, 9, 9, 9, 9, 9, 9, 9, 9, 10>>, -4)
F64_0_2 == F64Hex(<<1, 9, 9, 9, 9, 9, 9, 9, 9, 9, 9, 9, 9, 10>>, -3)
F64_0_3 == F64Hex(<<1, 3, 3, 3, 3, 3, 3, 3, 3, 3, 3, 3, 3, 3>>, -2)
F64_1 == F64Fin({0})
F64_2 == F64Fin({1})
F64_3 == F64Fin({1, 0})
F64_5 == F64Fin({2, 0})
F64_2_5 == F64Fin({1, -1})
F64_0_5 == F64Fin({-1})
F64_EXP2_M20 == F64Fin({-20})
F64_MAX == F64Fin((F64_MAX_EXP - F64_MANTISSA_DIGITS + 1)..F64_MAX_EXP)

\* the usages the arithmetic is called with: no distance, or epsilon and
\* delta that are not negative
UsageInputs ==
    {PrivacyUsage(None)} \cup
    {PrivacyUsage(Some(DistanceApproximate(d[1], d[2]))) :
        d \in {<<F64_ZERO, F64_ZERO>>, <<F64_1, F64_EXP2_M20>>,
               <<F64_2, F64_1e_6>>, <<F64_3, F64_2e_6>>, <<F64_5, F64_3e_6>>,
               <<F64_0_1, F64_ZERO>>, <<F64_0_2, F64_1e_6>>, <<F64_0_3, F64_ZERO>>,
               <<F64_MAX, F64_EXP2_M20>>, <<F64_INFINITY, F64_ZERO>>}}

\* the scalars a usage is multiplied and divided by
ScalarInputs == {F64_ZERO, F64_0_5, F64_2, F64_3, F64_MAX, F64_INFINITY, F64_NAN}

(***************************************************************************)
(* The state machine.                                                      *)
(***************************************************************************)
Init ==
    /\ pc = "idle"
    /\ op = "none"
    /\ args = <<>>
    /\ result = <<>>
    /\ graph = EmptyMap
    /\ release = EmptyMap
    /\ traversal = <<>>
    /\ ancestors = {}
    /\ iterations = 0
    /\ property_map = EmptyMap
    /\ max_id = U32(0)

\* a call that runs to its return in one step
Return(name, arguments, value) ==
    /\ pc' = "done"
    /\ op' = name
    /\ args' = arguments
    /\ result' = value
    /\ UNCHANGED <<graph, release, traversal, ancestors, iterations,
                   property_map, max_id>>

EvenSplitLengths ==
    /\ pc = "idle"
    /\ \E num_records \in 0..MaxRecords, num_partitions \in (-1)..MaxPartitions :
           Return("even_split_lengths",
                  [num_records |-> num_records, num_partitions |-> num_partitions],
                  even_split_lengths(num_records, num_partitions))

DpMeanExpand ==
    /\ pc = "idle"
    /\ \E arguments \in CompositeArguments, privacy_usage \in PrivacyUsageInputs,
          omit \in BOOLEAN, submission \in {0, 1},
          component_id \in NodeIdInputs, maximum_id \in NodeIdInputs,
          overflow_checks \in BOOLEAN :
           LET self == DpMean(privacy_usage, "resize")
               component == Component(arguments, self, omit, submission)
           IN  Return("DpMean::expand_component",
                      [component |-> component, component_id |-> component_id,
                       maximum_id |-> maximum_id, overflow_checks |-> overflow_checks],
                      DpMean_expand_component(self, component, component_id,
                                              maximum_id, overflow_checks))

DpMedianExpand ==
    /\ pc = "idle"
    /\ \E arguments \in CompositeArguments, privacy_usage \in PrivacyUsageInputs,
          interpolation \in {"linear", "midpoint"}, mechanism \in {"Laplace", "Exponential"},
          omit \in BOOLEAN, submission \in {0, 1},
          component_id \in NodeIdInputs, maximum_id \in NodeIdInputs :
           LET self == DpMedian(interpolation, privacy_usage, mechanism)
               component == Component(arguments, self, omit, submission)
           IN  Return("DpMedian::expand_component",
                      [component |-> component, component_id |-> component_id,
                       maximum_id |-> maximum_id],
                      DpMedian_expand_component(self, component, component_id, maximum_id))

\* the `data` entry of a properties map: missing, an array, or no array
WithData(properties, data_kind, num_records, group_id) ==
    CASE data_kind = "missing" -> properties
      [] data_kind = "array" ->
            MapInsert(properties, "data", DataProperties(num_records, group_id))
      [] data_kind = "jagged" -> MapInsert(properties, "data", JaggedProperties)

\* Partition with a `by` property
PartitionByCategories ==
    /\ pc = "idle"
    /\ \E data_kind \in {"missing", "array", "jagged"},
          num_records \in {None, Some(100)}, group_id \in GroupIdInputs,
          by_kind \in {"array", "jagged"},
          by_num_columns \in {None, Some(1), Some(2)},
          dtype \in {"none", "Bool", "Str", "I64", "F64"},
          num_partitions \in {None, Some(ArrayValue("I64", <<2>>))},
          node_id \in {U32(4), U32_MAX} :
           \E columns \in (IF dtype = "none" THEN {<<>>} ELSE CategoryColumns(dtype)) :
               LET by == IF by_kind = "jagged" THEN JaggedProperties
                         ELSE ArrayProperties(Some(100), by_num_columns, FALSE, None, None,
                                  IF dtype = "none" THEN None ELSE Some(Jagged(dtype, columns)),
                                  Some(U32AsI64(U32(1))), <<>>)
                   properties ==
                       MapInsert(WithData(EmptyMap, data_kind, num_records, group_id), "by", by)
                   public_arguments ==
                       IF IsSome(num_partitions)
                       THEN MapInsert(EmptyMap, "num_partitions", Unwrap(num_partitions))
                       ELSE EmptyMap
               IN  Return("Partition::propagate_property",
                          [public_arguments |-> public_arguments,
                           properties |-> properties, node_id |-> node_id],
                          Partition_propagate_property(public_arguments, properties, node_id))

\* Partition without a `by` property
PartitionByCount ==
    /\ pc = "idle"
    /\ \E data_kind \in {"missing", "array", "jagged"},
          num_records \in NumRecordsInputs, group_id \in GroupIdInputs,
          num_partitions \in {None} \cup {Some(v) : v \in NumPartitionsValues},
          node_id \in {U32(4), U32_MAX} :
           LET properties == WithData(EmptyMap, data_kind, num_records, group_id)
               public_arguments ==
                   IF IsSome(num_partitions)
                   THEN MapInsert(EmptyMap, "num_partitions", Unwrap(num_partitions))
                   ELSE EmptyMap
           IN  Return("Partition::propagate_property",
                      [public_arguments |-> public_arguments,
                       properties |-> properties, node_id |-> node_id],
                      Partition_propagate_property(public_arguments, properties, node_id))

\* self + rhs on two usages
PrivacyUsageAdd ==
    /\ pc = "idle"
    /\ \E self \in UsageInputs, rhs \in UsageInputs :
           Return("PrivacyUsage::add", [self |-> self, rhs |-> rhs],
                  PrivacyUsage_add(self, rhs))

\* self * rhs on a usage and a scalar
PrivacyUsageMul ==
    /\ pc = "idle"
    /\ \E self \in UsageInputs, rhs \in ScalarInputs :
           Return("PrivacyUsage::mul", [self |-> self, rhs |-> rhs],
                  PrivacyUsage_mul(self, rhs))

\* self / rhs on a usage and a scalar
PrivacyUsageDiv ==
    /\ pc = "idle"
    /\ \E self \in UsageInputs, rhs \in ScalarInputs :
           Return("PrivacyUsage::div", [self |-> self, rhs |-> rhs],
                  PrivacyUsage_div(self, rhs))

ImputeIsValid ==
    /\ pc = "idle"
    /\ \E present \in BOOLEAN, min \in {None, Some(0)}, max \in {None, Some(1)},
          num_records \in {None, Some(10)}, nullity \in BOOLEAN :
           LET constraints ==
                   IF present
                   THEN MapInsert(EmptyMap, "data", Constraint(min, max, num_records, nullity))
                   ELSE EmptyMap
           IN  Return("Impute::is_valid", [constraints |-> constraints],
                      Impute_is_valid(constraints))

\* generate_report: propagation has returned graph_properties, and the
\* HashMap of the graph yields its nodes in `order`
GenerateReport ==
    /\ pc = "idle"
    /\ \E g \in ReportGraphs, data_properties \in ReportDataProperties,
          first \in ReportValues, second \in ReportValues :
           \E order \in KeyOrders(g) :
               LET releases == ReportRelease(g, first, second)
                   graph_properties == ReportProperties(g, data_properties)
               IN  Return("generate_report",
                          [computation_graph |-> g, release |-> releases,
                           graph_properties |-> graph_properties, order |-> order],
                          generate_report(g, releases, graph_properties, order))

ExpandComponent ==
    /\ pc = "idle"
    /\ \E variant \in {"none", "DpMean", "DpMedian", "Partition"},
          has_data \in BOOLEAN, num_records \in {None, Some(MaxRecords)},
          num_partitions \in {None} \cup {Some(ArrayValue("I64", <<k>>)) : k \in 0..MaxPartitions},
          public \in BOOLEAN, has_data_argument \in BOOLEAN,
          component_id \in NodeIdInputs, maximum_id \in NodeIdInputs,
          overflow_checks \in BOOLEAN :
           LET arguments_ids == IF has_data_argument
                                THEN MapInsert(EmptyMap, "data", U32(3))
                                ELSE EmptyMap
               component ==
                   CASE variant = "none" -> None
                     [] variant = "DpMean" ->
                           Some(Component(arguments_ids, DpMean(<<Usage(1, 0)>>, "resize"), FALSE, 0))
                     [] variant = "DpMedian" ->
                           Some(Component(arguments_ids,
                                   DpMedian("linear", <<Usage(1, 0)>>, "Laplace"), FALSE, 0))
                     [] variant = "Partition" ->
                           Some(Component(arguments_ids, Partition, FALSE, 0))
               properties == WithData(EmptyMap, IF has_data THEN "array" ELSE "missing",
                                      num_records, <<>>)
               arguments ==
                   IF IsSome(num_partitions)
                   THEN MapInsert(EmptyMap, "num_partitions",
                                  ReleaseNode(Unwrap(num_partitions), public))
                   ELSE EmptyMap
               request == RequestExpandComponent(component, properties, arguments,
                                                 component_id, maximum_id)
           IN  Return("expand_component",
                      [request |-> request, overflow_checks |-> overflow_checks],
                      expand_component(request, overflow_checks))

\* validate_analysis is entered: the DAG check, then the loop starts on
\* the topological order of the graph, with no property known
ValidateAnalysisCall ==
    /\ pc = "idle"
    /\ \E g \in AnalysisGraphs, overflow_checks \in BOOLEAN :
        LET ordered == get_traversal(g) IN
        /\ op' = "validate_analysis"
        /\ args' = [computation_graph |-> g, release |-> EmptyMap,
                    overflow_checks |-> overflow_checks]
        /\ graph' = g
        /\ release' = EmptyMap
        /\ property_map' = EmptyMap
        /\ max_id' = U32Greatest((DOMAIN g) \cup {U32(0)})
        /\ IF IsOk(ordered)
           THEN /\ pc' = "engine"
                /\ traversal' = ordered.value
                /\ result' = result
           ELSE /\ pc' = "done"
                /\ traversal' = traversal
                /\ result' = ordered
        /\ UNCHANGED <<ancestors, iterations>>

\* one iteration of `while work not empty`
PropagateNode ==
    /\ pc = "engine"
    /\ traversal # <<>>
    /\ LET step == propagate_node(
                       LoopState(graph, release, property_map, traversal, max_id),
                       args.overflow_checks)
       IN  IF IsOk(step)
           THEN /\ graph' = step.value.computation_graph
                /\ release' = step.value.release
                /\ property_map' = step.value.properties
                /\ traversal' = step.value.traversal
                /\ max_id' = step.value.maximum_id
                /\ UNCHANGED <<pc, op, args, result, ancestors, iterations>>
           ELSE /\ pc' = "done"
                /\ result' = step
                /\ UNCHANGED <<op, args, graph, release, traversal, ancestors,
                               iterations, property_map, max_id>>

\* the work list is empty: validate_analysis returns Ok(())
ValidateAnalysisReturn ==
    /\ pc = "engine"
    /\ traversal = <<>>
    /\ pc' = "done"
    /\ result' = Ok(<<>>)
    /\ UNCHANGED <<op, args, graph, release, traversal, ancestors, iterations,
                   property_map, max_id>>

\* get_properties is entered: with node ids the ancestor collection
\* starts, without any the graph goes to propagation as it is
GetPropertiesCall ==
    /\ pc = "idle"
    /\ \E g \in Graphs, r \in Releases, node_ids \in NodeIdLists :
        /\ op' = "get_properties"
        /\ args' = [computation_graph |-> g, release |-> r, node_ids |-> node_ids]
        /\ graph' = g
        /\ release' = r
        /\ traversal' = node_ids
        /\ ancestors' = {}
        /\ pc' = IF Len(node_ids) > 0 THEN "collect" ELSE "propagate"
        /\ UNCHANGED <<result, iterations, property_map, max_id>>

\* one iteration of `while !traversal.is_empty()`; a stack that outgrows
\* MaxTraversal exhausts the memory and the process is aborted
CollectStep ==
    /\ pc = "collect"
    /\ Len(traversal) > 0
    /\ LET node_id == traversal[Len(traversal)]
           popped == SubSeq(traversal, 1, Len(traversal) - 1)
       IN  \E pushed \in (IF node_id \in DOMAIN graph
                          THEN ValueOrders(graph[node_id].arguments)
                          ELSE {<<>>}) :
            IF Len(popped) + Len(pushed) > MaxTraversal
            THEN /\ pc' = "done"
                 /\ result' = Panic("memory allocation failed")
                 /\ UNCHANGED <<op, args, graph, release, traversal, ancestors,
                                iterations, property_map, max_id>>
            ELSE /\ traversal' = popped \o pushed
                 /\ ancestors' = ancestors \cup {node_id}
                 /\ iterations' = (iterations + 1) % 2
                 /\ UNCHANGED <<pc, op, args, result, graph, release,
                                property_map, max_id>>

\* the loop has ended: the graph and the release are cut down to ancestors
Prune ==
    /\ pc = "collect"
    /\ Len(traversal) = 0
    /\ graph' = prune(graph, ancestors)
    /\ release' = prune(release, ancestors)
    /\ pc' = "propagate"
    /\ UNCHANGED <<op, args, result, traversal, ancestors, iterations,
                   property_map, max_id>>

\* utilities::propagate_properties(&mut analysis, &mut release, None, true)
Propagate ==
    /\ pc = "propagate"
    /\ result' = propagate_properties(graph, release)
    /\ pc' = "done"
    /\ UNCHANGED <<op, args, graph, release, traversal, ancestors, iterations,
                   property_map, max_id>>

Next ==
    \/ EvenSplitLengths
    \/ DpMeanExpand
    \/ DpMedianExpand
    \/ PartitionByCategories
    \/ PartitionByCount
    \/ ImputeIsValid
    \/ PrivacyUsageAdd
    \/ PrivacyUsageMul
    \/ PrivacyUsageDiv
    \/ GenerateReport
    \/ ExpandComponent
    \/ ValidateAnalysisCall
    \/ PropagateNode
    \/ ValidateAnalysisReturn
    \/ GetPropertiesCall
    \/ CollectStep
    \/ Prune
    \/ Propagate

Spec == Init /\ [][Next]_vars

\* get_properties and validate_analysis are sequential calls: once
\* entered, the next step is taken
FairSpec ==
    Spec /\ WF_vars(CollectStep \/ Prune \/ Propagate
                        \/ PropagateNode \/ ValidateAnalysisReturn)

\* the calls of validate_analysis alone, each run to its end
ValidateNext ==
    \/ ValidateAnalysisCall
    \/ PropagateNode
    \/ ValidateAnalysisReturn

ValidateSpec ==
    Init /\ [][ValidateNext]_vars /\ WF_vars(PropagateNode \/ ValidateAnalysisReturn)

(***************************************************************************)
(* The claims.                                                             *)
(***************************************************************************)

\* C1: for N >= 0 and k >= 0, even_split_lengths(N, k) has length k, its
\* first N mod k entries are ceil(N/k) and the others floor(N/k), so that
\* for k > 0 they sum to N; for k = 0 it is empty; (4,3) = [2,1,1],
\* (5,3) = [2,2,1], (3,3) = [1,1,1], (2,3) = [1,1,0], (2,0) = [].
C1_EvenSplitLengths ==
    (op = "even_split_lengths" /\ args.num_partitions >= 0) =>
        LET N == args.num_records
            k == args.num_partitions
            floor == N \div k
            ceil == (N + k - 1) \div k
        IN  /\ Len(result) = k
            /\ k = 0 => result = <<>>
            /\ k > 0 => /\ \A i \in 1..k :
                            result[i] = IF i <= N % k THEN ceil ELSE floor
                        /\ SeqSum(result) = N
            /\ (N = 4 /\ k = 3) => result = <<2, 1, 1>>
            /\ (N = 5 /\ k = 3) => result = <<2, 2, 1>>
            /\ (N = 3 /\ k = 3) => result = <<1, 1, 1>>
            /\ (N = 2 /\ k = 3) => result = <<1, 1, 0>>
            /\ (N = 2 /\ k = 0) => result = <<>>

C1_Witness ==
    /\ op = "even_split_lengths"
    /\ args.num_records = 5
    /\ args.num_partitions = 3
    /\ result = <<2, 2, 1>>

\* C2: expanding a DpMean at component_id with maximum_id yields exactly
\* two nodes, a Mean at maximum_id + 1 (data = the DpMean's data source,
\* omit) and a LaplaceMechanism at component_id (data = maximum_id + 1, the
\* DpMean's privacy_usage, not omitted), traversal [maximum_id + 1], and
\* empty properties and releases.
C2_DpMeanExpansion ==
    (op = "DpMean::expand_component" /\ "data" \in DOMAIN args.component.arguments) =>
        LET id_mean == U32WrappingSucc(args.maximum_id) IN
        /\ IsOk(result)
        /\ DOMAIN result.value.computation_graph = {id_mean, args.component_id}
        /\ Cardinality(DOMAIN result.value.computation_graph) = 2
        /\ result.value.computation_graph[id_mean].variant = Mean
        /\ result.value.computation_graph[id_mean].omit = TRUE
        /\ DOMAIN result.value.computation_graph[id_mean].arguments = {"data"}
        /\ result.value.computation_graph[id_mean].arguments["data"]
                = args.component.arguments["data"]
        /\ result.value.computation_graph[args.component_id].variant
                = LaplaceMechanism(args.component.variant.privacy_usage)
        /\ result.value.computation_graph[args.component_id].omit = FALSE
        /\ DOMAIN result.value.computation_graph[args.component_id].arguments = {"data"}
        /\ result.value.computation_graph[args.component_id].arguments["data"] = id_mean
        /\ result.value.traversal = <<id_mean>>
        /\ result.value.properties = EmptyMap
        /\ result.value.releases = EmptyMap

\* C3: expanding a DpMedian at component_id returns a graph with the single
\* key component_id, bound to a DpQuantile with alpha = 0.5 and the
\* DpMedian's interpolation, privacy_usage and mechanism; the node differs
\* from the original component only in its variant; traversal is
\* [component_id].
C3_DpMedianRewrite ==
    op = "DpMedian::expand_component" =>
        /\ IsOk(result)
        /\ DOMAIN result.value.computation_graph = {args.component_id}
        /\ result.value.computation_graph[args.component_id] =
                [args.component EXCEPT !.variant =
                    DpQuantile(Half, args.component.variant.interpolation,
                               args.component.variant.privacy_usage,
                               args.component.variant.mechanism)]
        /\ result.value.traversal = <<args.component_id>>

\* the call is Partition.propagate_property on an array `data`
PartitionOnArray ==
    /\ op = "Partition::propagate_property"
    /\ "data" \in DOMAIN args.properties
    /\ args.properties["data"].variant = "Array"

\* ... in by-categories form: `by` has one column of Bool, Str or I64
\* categories
ByCategoriesForm ==
    /\ PartitionOnArray
    /\ "by" \in DOMAIN args.properties
    /\ args.properties["by"].variant = "Array"
    /\ args.properties["by"].num_columns = Some(1)
    /\ IsSome(args.properties["by"].categories)
    /\ Unwrap(args.properties["by"].categories).dtype \in {"Bool", "Str", "I64"}
    /\ Len(Unwrap(args.properties["by"].categories).columns) = 1

\* ... in by-count form: no `by`, and num_partitions = k >= 0
ByCountForm ==
    /\ PartitionOnArray
    /\ "by" \notin DOMAIN args.properties
    /\ "num_partitions" \in DOMAIN args.public_arguments
    /\ args.public_arguments["num_partitions"].variant = "Array"
    /\ args.public_arguments["num_partitions"].dtype = "I64"
    /\ Len(args.public_arguments["num_partitions"].data) > 0
    /\ args.public_arguments["num_partitions"].data[1] >= 0

\* C4: in by-categories form the result is an index-map of variant
\* Partition, disjoint, with num_records None, keyed exactly by the
\* categories; every child is the parent array with num_records None and
\* one layer {partition_id: node_id, index: None} appended to group_id.
C4_PartitionByCategories ==
    ByCategoriesForm =>
        LET data == args.properties["data"]
            by == Unwrap(args.properties["by"].categories)
            C == {IndexKey(by.dtype, c) : c \in Range(by.columns[1])}
            child == [data EXCEPT !.num_records = None,
                                  !.group_id = Append(data.group_id,
                                                      GroupId(args.node_id, None))]
        IN  /\ IsOk(result)
            /\ result.value.variant = "Indexmap"
            /\ result.value.indexmap_variant = "Partition"
            /\ result.value.disjoint = TRUE
            /\ result.value.num_records = None
            /\ Range(result.value.properties.keys) = C
            /\ DOMAIN result.value.properties.values = C
            /\ \A c \in C : result.value.properties.values[c] = child

C4_Witness ==
    /\ ByCategoriesForm
    /\ Unwrap(args.properties["by"].categories) = Jagged("Bool", <<<<FALSE, TRUE>>>>)
    /\ args.properties["data"].num_records = Some(100)
    /\ args.properties["data"].group_id # <<>>
    /\ args.node_id = U32(4)
    /\ IsOk(result)
    /\ DOMAIN result.value.properties.values =
            {IndexKey("Bool", FALSE), IndexKey("Bool", TRUE)}

\* the children of a by-count result are keyed 0..k-1, child i holds the
\* i-th even split length (None when the parent's num_records is unknown)
\* and the parent's group_id with one layer appended
ByCountChildren ==
    LET data == args.properties["data"]
        k == args.public_arguments["num_partitions"].data[1]
        children == result.value.properties
    IN  /\ IsOk(result)
        /\ result.value.variant = "Indexmap"
        /\ result.value.num_records = data.num_records
        /\ Range(children.keys) = {IndexKey("I64", i) : i \in 0..(k - 1)}
        /\ DOMAIN children.values = {IndexKey("I64", i) : i \in 0..(k - 1)}
        /\ \A i \in 0..(k - 1) :
            /\ children.values[IndexKey("I64", i)].variant = "Array"
            /\ children.values[IndexKey("I64", i)].group_id =
                    Append(data.group_id, GroupId(args.node_id, None))
            /\ children.values[IndexKey("I64", i)].num_records =
                    IF IsSome(data.num_records)
                    THEN Some(even_split_lengths(Unwrap(data.num_records), k)[i + 1])
                    ELSE None

\* the sum of the children's num_records
ChildrenRecords ==
    LET children == result.value.properties
    IN  SeqSum([i \in 1..Len(children.keys) |->
                    Unwrap(children.values[children.keys[i]].num_records)])

\* C5 as stated: in by-count form with k >= 0 the children are as above
\* and, when N is known, their num_records sum to the index-map's N.
C5_Original ==
    ByCountForm =>
        /\ ByCountChildren
        /\ IsSome(args.properties["data"].num_records) =>
                Some(ChildrenRecords) = result.value.num_records

\* C5, amended: the children's num_records sum to N when k > 0; with
\* k = 0 there is no child and the index-map still reports N.
C5_PartitionByCount ==
    ByCountForm =>
        /\ ByCountChildren
        /\ IsSome(args.properties["data"].num_records) =>
            IF args.public_arguments["num_partitions"].data[1] > 0
            THEN Some(ChildrenRecords) = result.value.num_records
            ELSE /\ result.value.properties.keys = <<>>
                 /\ result.value.num_records = args.properties["data"].num_records

C5_Witness ==
    /\ ByCountForm
    /\ args.properties["data"].num_records = Some(5)
    /\ args.public_arguments["num_partitions"].data[1] = 3
    /\ args.properties["data"].group_id # <<>>
    /\ IsOk(result)
    /\ result.value.properties.keys =
            <<IndexKey("I64", 0), IndexKey("I64", 1), IndexKey("I64", 2)>>
    /\ result.value.properties.values[IndexKey("I64", 0)].num_records = Some(2)
    /\ result.value.properties.values[IndexKey("I64", 2)].num_records = Some(1)
    /\ ChildrenRecords = 5

\* C6: Partition.propagate_property fails when `by` has a number of
\* columns that is unknown or not 1, when its categories are floats, when
\* neither `by` nor num_partitions is given, and when `data` is missing or
\* no array.
C6_PartitionFails ==
    op = "Partition::propagate_property" =>
        LET properties == args.properties
            by_is_array == "by" \in DOMAIN properties /\ properties["by"].variant = "Array"
        IN  /\ (by_is_array /\ properties["by"].num_columns # Some(1)) => IsErr(result)
            /\ (/\ by_is_array
                /\ IsSome(properties["by"].categories)
                /\ Unwrap(properties["by"].categories).dtype = "F64") => IsErr(result)
            /\ (/\ "by" \notin DOMAIN properties
                /\ "num_partitions" \notin DOMAIN args.public_arguments) => IsErr(result)
            /\ "data" \notin DOMAIN properties => IsErr(result)
            /\ ("data" \in DOMAIN properties /\ properties["data"].variant # "Array")
                    => IsErr(result)

C6_Witness ==
    /\ PartitionOnArray
    /\ "by" \in DOMAIN args.properties
    /\ args.properties["by"].variant = "Array"
    /\ args.properties["by"].num_columns = Some(1)
    /\ args.properties["by"].categories = Some(Jagged("F64", <<<<0, 1>>>>))
    /\ result = Err("partitioning based on floats is not supported")

\* C7: Impute is valid if and only if the lower bound, the upper bound and
\* num_records are all defined on `data`.
C7_ImputeValid ==
    op = "Impute::is_valid" =>
        (result = TRUE <=>
            /\ "data" \in DOMAIN args.constraints
            /\ IsSome(args.constraints["data"].min)
            /\ IsSome(args.constraints["data"].max)
            /\ IsSome(args.constraints["data"].num_records))

\* C8: every call of get_properties comes to an end.
C8_GetPropertiesTerminates == (op = "get_properties") ~> (pc = "done")

\* the ids in node_ids or reachable from them along arguments edges
Ancestors == Reachable(args.computation_graph, Range(args.node_ids))

\* propagation is about to run on the graph and release of a call with
\* node ids
PrunedCall ==
    /\ op = "get_properties"
    /\ pc = "propagate"
    /\ Len(args.node_ids) > 0

\* the graph handed to propagation: the nodes of the original graph among
\* the ancestors, each unchanged; unpruned without node ids
PropagatedGraph ==
    (op = "get_properties" /\ pc = "propagate") =>
        IF Len(args.node_ids) > 0
        THEN /\ DOMAIN graph = (DOMAIN args.computation_graph) \cap Ancestors
             /\ \A n \in DOMAIN graph : graph[n] = args.computation_graph[n]
        ELSE graph = args.computation_graph /\ release = args.release

\* C9 as stated: the release map is restricted to the node set of the
\* pruned graph.
C9_Original ==
    /\ PropagatedGraph
    /\ PrunedCall =>
        /\ DOMAIN release = (DOMAIN args.release) \cap DOMAIN graph
        /\ \A n \in DOMAIN release : release[n] = args.release[n]

\* C9, amended: the release map is restricted to the ids in node_ids or
\* reachable from them, whether or not the graph has a node of that id.
C9_GetPropertiesPrunes ==
    /\ PropagatedGraph
    /\ PrunedCall =>
        /\ DOMAIN release = (DOMAIN args.release) \cap Ancestors
        /\ \A n \in DOMAIN release : release[n] = args.release[n]

C9_Witness ==
    /\ PrunedCall
    /\ DOMAIN graph # {}
    /\ DOMAIN graph # DOMAIN args.computation_graph
    /\ DOMAIN release # {}
    /\ DOMAIN release # DOMAIN args.release

\* propagate_property is called: the component is given and its expansion
\* returned an empty traversal
PropagateIsCalled(request, overflow_checks) ==
    /\ IsSome(request.component)
    /\ LET expansion == Component_expand_component(Unwrap(request.component),
                            request_properties(request), request.component_id,
                            request.maximum_id, overflow_checks)
       IN  IsOk(expansion) /\ expansion.value.traversal = <<>>

\* C10: for an argument supplied with public = false, neither the
\* properties handed to the component, nor the public-argument values
\* handed to its propagate_property, nor the result of the call depends on
\* the argument's value.
C10_NonInterference ==
    op = "expand_component" =>
        \A name \in DOMAIN args.request.arguments :
            ~args.request.arguments[name].public =>
                \A k \in 0..MaxPartitions :
                    LET other == [args.request EXCEPT
                                    !.arguments[name].value = ArrayValue("I64", <<k>>)]
                    IN  /\ request_properties(other) = request_properties(args.request)
                        /\ PropagateIsCalled(args.request, args.overflow_checks) =>
                                request_public_values(other)
                                    = request_public_values(args.request)
                        /\ expand_component(other, args.overflow_checks) = result

\* generate_report was called on a graph that passes propagation
ReportCall == op = "generate_report" /\ ~HasCycle(args.computation_graph)

\* what summarize makes of a node of the reported graph
ReportSummary(node_id) ==
    summarize_node(args.computation_graph, args.release, args.graph_properties,
        collect_names(args.computation_graph, args.release,
                      get_traversal(args.computation_graph).value, EmptyMap),
        node_id)

PropagationSucceeded ==
    /\ op = "validate_analysis"
    /\ pc = "done"
    /\ IsOk(result)

\* C13: after the loop has finished successfully, the key set of the
\* property map is the node set of the final graph.
C13_PropertiesCoverGraph ==
    PropagationSucceeded => DOMAIN property_map = DOMAIN graph

\* the loop takes a node from the work list and goes on
LoopStep ==
    /\ op = "validate_analysis"
    /\ pc = "engine"
    /\ pc' = "engine"
    /\ traversal # <<>>

\* the kind of the component the loop is about to visit
VisitedKind == graph[Head(traversal)].variant.kind

\* every call of validate_analysis comes to an end
LoopEnds == (op = "validate_analysis") ~> (pc = "done")

AddCall == pc = "done" /\ op = "PrivacyUsage::add"
MulCall == pc = "done" /\ op = "PrivacyUsage::mul"
DivCall == pc = "done" /\ op = "PrivacyUsage::div"

Defined(usage) == IsSome(usage.distance)
Epsilon(usage) == Unwrap(usage.distance).epsilon
Delta(usage) == Unwrap(usage.distance).delta
ApproximateUsage(epsilon, delta) ==
    PrivacyUsage(Some(DistanceApproximate(epsilon, delta)))

\* addition is componentwise, multiplication and division scale both
\* components, and an undefined distance is the error of each of them
Componentwise ==
    /\ AddCall =>
            IF Defined(args.self) /\ Defined(args.rhs)
            THEN result = Ok(ApproximateUsage(
                                F64Add(Epsilon(args.self), Epsilon(args.rhs)),
                                F64Add(Delta(args.self), Delta(args.rhs))))
            ELSE result = Err("distance must be defined")
    /\ MulCall =>
            IF Defined(args.self)
            THEN result = Ok(ApproximateUsage(F64Mul(Epsilon(args.self), args.rhs),
                                              F64Mul(Delta(args.self), args.rhs)))
            ELSE result = Err("distance must be defined")
    /\ DivCall =>
            IF Defined(args.self)
            THEN result = Ok(ApproximateUsage(F64Div(Epsilon(args.self), args.rhs),
                                              F64Div(Delta(args.self), args.rhs)))
            ELSE result = Err("distance must be defined")

\* (2, 1e-6) + (3, 2e-6) = (5, 3e-6), and (5, 3e-6) / 2 = (2.5, 1.5e-6)
Examples ==
    /\ (AddCall /\ args.self = ApproximateUsage(F64_2, F64_1e_6)
                /\ args.rhs = ApproximateUsage(F64_3, F64_2e_6)) =>
            result = Ok(ApproximateUsage(F64_5, F64_3e_6))
    /\ (DivCall /\ args.self = ApproximateUsage(F64_5, F64_3e_6)
                /\ args.rhs = F64_2) =>
            result = Ok(ApproximateUsage(F64_2_5, F64_1_5e_6))

\* self + rhs = rhs + self, and (0, 0) added on either side changes nothing
CommutativeWithIdentity ==
    AddCall =>
        /\ result = PrivacyUsage_add(args.rhs, args.self)
        /\ (Defined(args.self) /\ args.rhs = ApproximateUsage(F64_ZERO, F64_ZERO)) =>
                result = Ok(args.self)
        /\ (Defined(args.rhs) /\ args.self = ApproximateUsage(F64_ZERO, F64_ZERO)) =>
                result = Ok(args.rhs)

\* (self + rhs) + third = self + (rhs + third)
AssociativeWith(third) ==
    LET right == PrivacyUsage_add(args.rhs, third)
    IN  PrivacyUsage_add(result.value, third) = PrivacyUsage_add(args.self, right.value)

\* x + y is the sum itself: finite and not rounded
ExactSum(x, y) ==
    /\ F64IsFinite(x)
    /\ F64IsFinite(y)
    /\ F64Add(x, y) = F64Fin(BitsAdd(x.bits, y.bits))

\* no sum of x + y + z, in either order, is rounded
ExactSums(x, y, z) ==
    /\ ExactSum(x, y)
    /\ ExactSum(F64Add(x, y), z)
    /\ ExactSum(y, z)
    /\ ExactSum(x, F64Add(y, z))

\* the three usages have distances, and none of their sums is rounded
ExactUsages(a, b, c) ==
    /\ Defined(a) /\ Defined(b) /\ Defined(c)
    /\ ExactSums(Epsilon(a), Epsilon(b), Epsilon(c))
    /\ ExactSums(Delta(a), Delta(b), Delta(c))

\* C15 as stated: componentwise addition and scaling with the two example
\* values, the error of an undefined distance, and addition commutative
\* and associative with (0, 0) as identity.
C15_Original ==
    /\ Componentwise
    /\ Examples
    /\ CommutativeWithIdentity
    /\ AddCall =>
            \A third \in UsageInputs :
                (Defined(args.self) /\ Defined(args.rhs) /\ Defined(third)) =>
                    AssociativeWith(third)

\* C15, amended: componentwise addition and scaling with the two example
\* values, the error of an undefined distance, addition commutative with
\* (0, 0) as identity, and associative where no sum is rounded.
C15_PrivacyUsageArithmetic ==
    /\ Componentwise
    /\ Examples
    /\ CommutativeWithIdentity
    /\ AddCall =>
            \A third \in UsageInputs :
                ExactUsages(args.self, args.rhs, third) => AssociativeWith(third)

\* (1, 2^-20) + (1, 2^-20), which is associative with a third usage
C15_Witness ==
    /\ AddCall
    /\ args.self = ApproximateUsage(F64_1, F64_EXP2_M20)
    /\ args.rhs = ApproximateUsage(F64_1, F64_EXP2_M20)
    /\ result = Ok(ApproximateUsage(F64_2, F64Fin({-19})))
    /\ \E third \in UsageInputs :
            /\ third # ApproximateUsage(F64_ZERO, F64_ZERO)
            /\ ExactUsages(args.self, args.rhs, third)
            /\ AssociativeWith(third)
            /\ PrivacyUsage_add(result.value, third) =
                    Ok(ApproximateUsage(F64_3, F64Fin({-19, -20})))

\* C16: an Ok result of Add, Mul or Div holds an epsilon and a delta that
\* are finite numbers; division by zero, NaN and overflow are errors.
C16_ArithmeticChecked ==
    ((AddCall \/ MulCall \/ DivCall) /\ IsOk(result)) =>
        /\ F64IsFinite(Epsilon(result.value))
        /\ F64IsFinite(Delta(result.value))

(***************************************************************************)
(* The public expand_component on a composite component.                   *)
(***************************************************************************)

\* expand_component was called with a component of the given kind
ExpandCallOf(kind) ==
    /\ pc = "done"
    /\ op = "expand_component"
    /\ IsSome(args.request.component)
    /\ Unwrap(args.request.component).variant.kind = kind

\* the error of a propagate_property that is abstract
AbstractErrors ==
    {Err("DPMaximum is abstract, and has no property propagation"),
     Err("component is abstract, and has no property propagation")}

\* C17: a request for a DpMean or a DpMedian returns Ok, without the
\* error of the abstract propagate_property and without a property for
\* component_id.
C17_AbstractNeverSurfaced ==
    (ExpandCallOf("DpMean") \/ ExpandCallOf("DpMedian")) =>
        /\ result \notin AbstractErrors
        /\ IsOk(result)
        /\ result.value.traversal # <<>>
        /\ args.request.component_id \notin DOMAIN result.value.properties

\* C18: for every component_id and maximum_id of a request, the id of the
\* Mean node is maximum_id + 1, is not component_id and is above every id
\* of the graph; the expansion holds two nodes, and the noising node at
\* component_id does not take itself as its data.
C18_FreshIds ==
    (ExpandCallOf("DpMean") /\ "data" \in DOMAIN Unwrap(args.request.component).arguments) =>
        /\ IsOk(result)
        /\ LET id_mean == result.value.traversal[1]
                component_id == args.request.component_id
                expansion == result.value.computation_graph
           IN  /\ id_mean # component_id
               /\ U32Lt(args.request.maximum_id, id_mean)
               /\ DOMAIN expansion = {id_mean, component_id}
               /\ Cardinality(DOMAIN expansion) = 2
               /\ expansion[component_id].arguments["data"] # component_id

====
